---- MODULE Spec2Model ----
(***************************************************************************)
(* State-machine model of the IS31FL3235A 28-channel LED driver            *)
(* (src/driver/is31fl3235a.c): the channel register cache, the atomic      *)
(* update trigger, the shutdown flags, the initialization sequence and the *)
(* per-instance mutex, together with the chip's double-buffered registers  *)
(* as seen through the I2C writes the driver issues.                       *)
(***************************************************************************)
EXTENDS Integers, Sequences, FiniteSets, TLC

(***************************************************************************)
(* Register map and constants (src/driver/is31fl3235a_regs.h)              *)
(***************************************************************************)
IS31FL3235A_REG_SHUTDOWN == 0
IS31FL3235A_REG_PWM_BASE == 5
IS31FL3235A_REG_UPDATE == 37
IS31FL3235A_REG_CTRL_BASE == 42
IS31FL3235A_REG_FREQ == 75
IS31FL3235A_REG_RESET == 79
IS31FL3235A_NUM_CHANNELS == 28
IS31FL3235A_SHUTDOWN_MODE == 0
IS31FL3235A_SHUTDOWN_NORMAL == 1
IS31FL3235A_UPDATE_TRIGGER == 0
IS31FL3235A_CTRL_SL_SHIFT == 1
IS31FL3235A_CTRL_SL_MASK == 6
IS31FL3235A_CTRL_OUT_ENABLE == 1
IS31FL3235A_CTRL_ENABLE_1X == 1
IS31FL3235A_FREQ_3KHZ == 0
IS31FL3235A_FREQ_22KHZ == 1
IS31FL3235A_RESET_TRIGGER == 0
IS31FL3235A_SCALE_1X == 0
IS31FL3235A_SCALE_1_2X == 1
IS31FL3235A_SCALE_1_3X == 2
IS31FL3235A_SCALE_1_4X == 3
\* sizeof(write_buf) in is31fl3235a_write_buffer
WRITE_BUF_SIZE == 256
\* UINT8_MAX, the largest value of a uint8_t
UINT8_MAX == 255

(***************************************************************************)
(* uint32_t arguments (led, start_channel, num_channels), kept at their    *)
(* width as two 16-bit limbs <<high, low>>; addition wraps modulo 2^32     *)
(***************************************************************************)
Limb == 65536

U32(n) == <<n \div Limb, n % Limb>>

UINT32_MAX == <<Limb - 1, Limb - 1>>

U32Add(a, b) ==
    LET low == a[2] + b[2]
        high == a[1] + b[1] + (low \div Limb)
    IN  <<high % Limb, low % Limb>>

U32Gt(a, b) == a[1] > b[1] \/ (a[1] = b[1] /\ a[2] > b[2])

U32Ge(a, b) == a = b \/ U32Gt(a, b)

\* the value of a uint32_t known to be below 2^16
U32Low(a) == a[2]

IS31FL3235A_PWM_REG(ch) == IS31FL3235A_REG_PWM_BASE + ch
IS31FL3235A_CTRL_REG(ch) == IS31FL3235A_REG_CTRL_BASE + ch

ChannelIdx == 0 .. (IS31FL3235A_NUM_CHANNELS - 1)

(***************************************************************************)
(* Bounds of the model                                                     *)
(***************************************************************************)
\* number of public-operation calls made by the two concurrent callers
MaxCalls == 2

\* number of calls made on an instance whose initialization failed
MaxUnreadyCalls == 1

\* number of public-operation calls made by a single caller, one after another
MaxSeqCalls == 3

Callers == {"t1", "t2"}

VARIABLES
    cfg,            \* struct is31fl3235a_cfg: sdb_gpio present, pwm_freq_22khz
    lock,           \* data->lock: "free" or the caller holding it
    initialized,    \* data->initialized
    sw_shutdown,    \* data->sw_shutdown
    hw_shutdown,    \* data->hw_shutdown
    pwm_cache,      \* data->pwm_cache[28]
    ctrl_cache,     \* data->ctrl_cache[28]
    chip,           \* the chip's registers: staging, active, shutdown, freq
    sdb_pin,        \* level of the SDB pin
    ipc,            \* position of is31fl3235a_init
    iret,           \* return value of is31fl3235a_init
    ich,            \* loop index i of is31fl3235a_init
    ilog,           \* init's bus writes: channel registers, Update register
    pc,             \* position of each caller
    op,             \* the operation each caller is in, with its arguments
    ret,            \* the value each caller's operation returns
    wbuf,           \* ctrl_val / ctrl_buf: the bytes each caller wrote
    wlog,           \* the I2C writes of each caller's current operation
    calls,          \* number of calls made so far
    pre,            \* history: the caches as each operation took the lock
    hist,           \* history: scale and enable of the last successful calls
    deferred,       \* history: channels staged by no-update calls, not applied
    pending,        \* history: channels written since the last acked Update write
    overlap         \* history: callers whose call ran while another's was running

vars == <<cfg, lock, initialized, sw_shutdown, hw_shutdown, pwm_cache,
          ctrl_cache, chip, sdb_pin, ipc, iret, ich, ilog, pc, op, ret,
          wbuf, wlog, calls, pre, hist, deferred, pending, overlap>>

dataVars == <<initialized, sw_shutdown, hw_shutdown, pwm_cache, ctrl_cache>>
initVars == <<ipc, iret, ich, ilog>>
callerVars == <<pc, op, ret, wbuf, wlog, calls, pre, hist, deferred,
                pending, overlap>>

(***************************************************************************)
(* The chip: staging registers, active (output-driving) registers          *)
(***************************************************************************)
ZeroRegs == [i \in ChannelIdx |-> 0]

\* power-on defaults: every register 0 (software shutdown mode)
ChipPowerOn ==
    [pwm |-> ZeroRegs, ctrl |-> ZeroRegs, out_pwm |-> ZeroRegs,
     out_ctrl |-> ZeroRegs, shutdown |-> IS31FL3235A_SHUTDOWN_MODE,
     freq |-> IS31FL3235A_FREQ_3KHZ]

\* registers left by an earlier run of the host (the chip kept its power)
ChipStale ==
    [pwm |-> [i \in ChannelIdx |-> UINT8_MAX],
     ctrl |-> [i \in ChannelIdx |-> IS31FL3235A_CTRL_SL_MASK],
     out_pwm |-> [i \in ChannelIdx |-> UINT8_MAX],
     out_ctrl |-> [i \in ChannelIdx |-> IS31FL3235A_CTRL_SL_MASK],
     shutdown |-> IS31FL3235A_SHUTDOWN_NORMAL,
     freq |-> IS31FL3235A_FREQ_22KHZ]

InPwmWindow(reg) ==
    /\ reg >= IS31FL3235A_REG_PWM_BASE
    /\ reg < IS31FL3235A_REG_PWM_BASE + IS31FL3235A_NUM_CHANNELS

InCtrlWindow(reg) ==
    /\ reg >= IS31FL3235A_REG_CTRL_BASE
    /\ reg < IS31FL3235A_REG_CTRL_BASE + IS31FL3235A_NUM_CHANNELS

\* the Update write applying the PWM registers only
ChipWriteByteNoCtrl(c, reg, value) ==
    IF reg = IS31FL3235A_REG_SHUTDOWN THEN [c EXCEPT !.shutdown = value % 2]
    ELSE IF InPwmWindow(reg)
        THEN [c EXCEPT !.pwm[reg - IS31FL3235A_REG_PWM_BASE] = value]
    ELSE IF reg = IS31FL3235A_REG_UPDATE
        THEN [c EXCEPT !.out_pwm = c.pwm]
    ELSE IF InCtrlWindow(reg)
        THEN [c EXCEPT !.ctrl[reg - IS31FL3235A_REG_CTRL_BASE] = value]
    ELSE IF reg = IS31FL3235A_REG_FREQ THEN [c EXCEPT !.freq = value % 2]
    ELSE IF reg = IS31FL3235A_REG_RESET THEN ChipPowerOn
    ELSE c

\* one byte landing in the register at address reg
ChipWriteByte(c, reg, value) ==
    IF reg = IS31FL3235A_REG_SHUTDOWN THEN [c EXCEPT !.shutdown = value % 2]
    ELSE IF InPwmWindow(reg)
        THEN [c EXCEPT !.pwm[reg - IS31FL3235A_REG_PWM_BASE] = value]
    ELSE IF reg = IS31FL3235A_REG_UPDATE
        THEN [c EXCEPT !.out_pwm = c.pwm, !.out_ctrl = c.ctrl]
    ELSE IF InCtrlWindow(reg)
        THEN [c EXCEPT !.ctrl[reg - IS31FL3235A_REG_CTRL_BASE] = value]
    ELSE IF reg = IS31FL3235A_REG_FREQ THEN [c EXCEPT !.freq = value % 2]
    ELSE IF reg = IS31FL3235A_REG_RESET THEN ChipPowerOn
    ELSE c

\* an I2C write of data starting at start_reg, the address auto-incrementing
RECURSIVE ChipWrite(_, _, _)
ChipWrite(c, start_reg, data) ==
    IF data = <<>> THEN c
    ELSE ChipWrite(ChipWriteByte(c, start_reg, Head(data)),
                   start_reg + 1, Tail(data))

\* the record of an I2C write: where, what, and whether it was acked
BusWrite(reg, data, ok) == [reg |-> reg, data |-> data, ok |-> ok]

\* the device-tree instances: with an SDB pin and 22 kHz PWM, without a pin
\* and 3 kHz PWM
Configs == {[sdb |-> TRUE, pwm_freq_22khz |-> TRUE],
            [sdb |-> FALSE, pwm_freq_22khz |-> FALSE]}

\* no snapshot of the caches: the caller is not inside an operation
NoCaches == [pwm |-> <<>>, ctrl |-> <<>>]

\* no channel register written since the last acked Update write
NoPending == [pwm |-> {}, ctrl |-> {}]

\* an operation and its arguments
Operation(name, ch, n, val, vals, en, ens) ==
    [name |-> name, ch |-> ch, n |-> n, val |-> val, vals |-> vals,
     en |-> en, ens |-> ens]

NoOp == Operation("none", U32(0), U32(0), 0, <<>>, FALSE, <<>>)

(***************************************************************************)
(* Initial state: static data zeroed, chip at power-on or stale            *)
(***************************************************************************)
Init ==
    /\ cfg \in Configs
    /\ lock = "free"
    /\ initialized = FALSE
    /\ sw_shutdown = FALSE
    /\ hw_shutdown = FALSE
    /\ pwm_cache = ZeroRegs
    /\ ctrl_cache = ZeroRegs
    /\ chip \in {ChipPowerOn, ChipStale}
    /\ sdb_pin = 0
    /\ ipc = "start"
    /\ iret = "none"
    /\ ich = 0
    /\ ilog = [chan |-> 0, update |-> 0]
    /\ pc = [t \in Callers |-> "idle"]
    /\ op = [t \in Callers |-> NoOp]
    /\ ret = [t \in Callers |-> "none"]
    /\ wbuf = [t \in Callers |-> <<>>]
    /\ wlog = [t \in Callers |-> <<>>]
    /\ calls = 0
    /\ pre = [t \in Callers |-> NoCaches]
    /\ hist = [scale |-> [i \in ChannelIdx |-> IS31FL3235A_SCALE_1X],
               enable |-> [i \in ChannelIdx |-> TRUE],
               failed |-> FALSE]
    /\ deferred = {}
    /\ pending = NoPending
    /\ overlap = {}

(***************************************************************************)
(* Register transport: i2c_write_dt either lands whole or fails whole      *)
(***************************************************************************)
I2cWriteOk(reg, data) == chip' = ChipWrite(chip, reg, data)

I2cWriteFail(reg, data) == chip' = chip

(***************************************************************************)
(* is31fl3235a_init, one action per collaborator call                      *)
(***************************************************************************)
\* the error ignored: init goes on to the trigger
InitFailIgnored(code) ==
    /\ ipc' = "trigger"
    /\ iret' = iret

InitFail(code) ==
    /\ ipc' = "failed"
    /\ iret' = code

\* k_mutex_init, device_is_ready(cfg->i2c.bus)
InitStart ==
    /\ ipc = "start"
    /\ lock' = "free"
    /\ \/ /\ ipc' = IF cfg.sdb THEN "sdb_ready" ELSE "reset"
          /\ iret' = iret
       \/ InitFail("-ENODEV")
    /\ UNCHANGED <<cfg, dataVars, chip, sdb_pin, ich, ilog, callerVars>>

\* device_is_ready(cfg->sdb_gpio.port)
InitSdbReady ==
    /\ ipc = "sdb_ready"
    /\ \/ /\ ipc' = "sdb_configure"
          /\ iret' = iret
       \/ InitFail("-ENODEV")
    /\ UNCHANGED <<cfg, lock, dataVars, chip, sdb_pin, ich, ilog,
                   callerVars>>

\* gpio_pin_configure_dt(&cfg->sdb_gpio, GPIO_OUTPUT_ACTIVE)
InitSdbConfigure ==
    /\ ipc = "sdb_configure"
    /\ \/ /\ sdb_pin' = 1
          /\ ipc' = "sdb_set"
          /\ iret' = iret
       \/ /\ sdb_pin' = sdb_pin
          /\ InitFail("-EIO")
    /\ UNCHANGED <<cfg, lock, dataVars, chip, ich, ilog, callerVars>>

\* gpio_pin_set_dt(&cfg->sdb_gpio, 1); data->hw_shutdown = false
InitSdbSet ==
    /\ ipc = "sdb_set"
    /\ \/ /\ sdb_pin' = 1
          /\ hw_shutdown' = FALSE
          /\ ipc' = "sdb_delay"
          /\ iret' = iret
       \/ /\ UNCHANGED <<sdb_pin, hw_shutdown>>
          /\ InitFail("-EIO")
    /\ UNCHANGED <<cfg, lock, initialized, sw_shutdown, pwm_cache, ctrl_cache,
                   chip, ich, ilog, callerVars>>

\* k_msleep(IS31FL3235A_STARTUP_DELAY_MS)
InitSdbDelay ==
    /\ ipc = "sdb_delay"
    /\ ipc' = "reset"
    /\ UNCHANGED <<cfg, lock, dataVars, chip, sdb_pin, iret, ich, ilog,
                   callerVars>>

\* is31fl3235a_write_reg(dev, IS31FL3235A_REG_RESET, IS31FL3235A_RESET_TRIGGER)
InitReset ==
    /\ ipc = "reset"
    /\ \/ /\ I2cWriteOk(IS31FL3235A_REG_RESET,
                        <<IS31FL3235A_RESET_TRIGGER>>)
          /\ ipc' = "reset_delay"
          /\ iret' = iret
       \/ /\ I2cWriteFail(IS31FL3235A_REG_RESET,
                          <<IS31FL3235A_RESET_TRIGGER>>)
          /\ InitFail("-EIO")
    /\ UNCHANGED <<cfg, lock, dataVars, sdb_pin, ich, ilog, callerVars>>

\* k_msleep(IS31FL3235A_RESET_DELAY_MS)
InitResetDelay ==
    /\ ipc = "reset_delay"
    /\ ipc' = "wake"
    /\ UNCHANGED <<cfg, lock, dataVars, chip, sdb_pin, iret, ich, ilog,
                   callerVars>>

\* write IS31FL3235A_SHUTDOWN_NORMAL; data->sw_shutdown = false
InitWake ==
    /\ ipc = "wake"
    /\ \/ /\ I2cWriteOk(IS31FL3235A_REG_SHUTDOWN,
                        <<IS31FL3235A_SHUTDOWN_NORMAL>>)
          /\ sw_shutdown' = FALSE
          /\ ipc' = "freq"
          /\ iret' = iret
       \/ /\ I2cWriteFail(IS31FL3235A_REG_SHUTDOWN,
                          <<IS31FL3235A_SHUTDOWN_NORMAL>>)
          /\ sw_shutdown' = sw_shutdown
          /\ InitFail("-EIO")
    /\ UNCHANGED <<cfg, lock, initialized, hw_shutdown, pwm_cache, ctrl_cache,
                   sdb_pin, ich, ilog, callerVars>>

freq_val ==
    IF cfg.pwm_freq_22khz THEN IS31FL3235A_FREQ_22KHZ
    ELSE IS31FL3235A_FREQ_3KHZ

\* is31fl3235a_write_reg(dev, IS31FL3235A_REG_FREQ, freq_val)
InitFreq ==
    /\ ipc = "freq"
    /\ \/ /\ I2cWriteOk(IS31FL3235A_REG_FREQ, <<freq_val>>)
          /\ ipc' = "pwm"
          /\ iret' = iret
       \/ /\ I2cWriteFail(IS31FL3235A_REG_FREQ, <<freq_val>>)
          /\ InitFail("-EIO")
    /\ UNCHANGED <<cfg, lock, dataVars, sdb_pin, ich, ilog, callerVars>>

\* loop body, first half: PWM register of channel i to 0, cache to 0
InitPwm ==
    /\ ipc = "pwm"
    /\ \/ /\ I2cWriteOk(IS31FL3235A_PWM_REG(ich), <<0>>)
          /\ pwm_cache' = [pwm_cache EXCEPT ![ich] = 0]
          /\ ilog' = [ilog EXCEPT !.chan = @ + 1]
          /\ ipc' = "ctrl"
          /\ iret' = iret
       \/ /\ I2cWriteFail(IS31FL3235A_PWM_REG(ich), <<0>>)
          /\ UNCHANGED <<pwm_cache, ilog>>
          /\ InitFail("-EIO")
    /\ UNCHANGED <<cfg, lock, initialized, sw_shutdown, hw_shutdown,
                   ctrl_cache, sdb_pin, ich, callerVars>>

\* the loop leaving one channel out
InitLoopStopsEarly(i) ==
    IF i + 1 < IS31FL3235A_NUM_CHANNELS - 1 THEN "pwm" ELSE "trigger"

\* where the loop goes after channel i's control write
InitLoopNext(i) ==
    IF i + 1 < IS31FL3235A_NUM_CHANNELS THEN "pwm" ELSE "trigger"

\* loop body, second half: control register to enabled, 1x; cache likewise
InitCtrl ==
    /\ ipc = "ctrl"
    /\ \/ /\ I2cWriteOk(IS31FL3235A_CTRL_REG(ich),
                        <<IS31FL3235A_CTRL_ENABLE_1X>>)
          /\ ctrl_cache' = [ctrl_cache EXCEPT ![ich] = IS31FL3235A_CTRL_ENABLE_1X]
          /\ ilog' = [ilog EXCEPT !.chan = @ + 1]
          /\ ich' = ich + 1
          /\ ipc' = InitLoopNext(ich)
          /\ iret' = iret
       \/ /\ I2cWriteFail(IS31FL3235A_CTRL_REG(ich),
                          <<IS31FL3235A_CTRL_ENABLE_1X>>)
          /\ UNCHANGED <<ctrl_cache, ilog, ich>>
          /\ InitFail("-EIO")
    /\ UNCHANGED <<cfg, lock, initialized, sw_shutdown, hw_shutdown,
                   pwm_cache, sdb_pin, callerVars>>

\* is31fl3235a_trigger_update; data->initialized = true; return 0
InitTrigger ==
    /\ ipc = "trigger"
    /\ \/ /\ I2cWriteOk(IS31FL3235A_REG_UPDATE,
                        <<IS31FL3235A_UPDATE_TRIGGER>>)
          /\ ilog' = [ilog EXCEPT !.update = @ + 1]
          /\ initialized' = TRUE
          /\ ipc' = "ready"
          /\ iret' = "0"
       \/ /\ I2cWriteFail(IS31FL3235A_REG_UPDATE,
                          <<IS31FL3235A_UPDATE_TRIGGER>>)
          /\ UNCHANGED <<ilog, initialized>>
          /\ InitFail("-EIO")
    /\ UNCHANGED <<cfg, lock, sw_shutdown, hw_shutdown, pwm_cache, ctrl_cache,
                   sdb_pin, ich, callerVars>>

InitStep ==
    \/ InitStart
    \/ InitSdbReady
    \/ InitSdbConfigure
    \/ InitSdbSet
    \/ InitSdbDelay
    \/ InitReset
    \/ InitResetDelay
    \/ InitWake
    \/ InitFreq
    \/ InitPwm
    \/ InitCtrl
    \/ InitTrigger


(***************************************************************************)
(* The public operations and the inputs callers pass                       *)
(***************************************************************************)
\* channel indices passed as uint32_t led
LedInputs == {U32(0), U32(IS31FL3235A_NUM_CHANNELS), UINT32_MAX}

\* <<start_channel, num_channels, buf>> of led_write_channels
RangeInputs == {<<U32(0), U32(3), <<UINT8_MAX, 200, 100>>>>,
                <<U32(25), U32(3), <<100, 100, 100>>>>,
                <<U32(26), U32(3), <<100, 100, 100>>>>,
                <<U32(27), UINT32_MAX, <<>>>>,
                <<U32(IS31FL3235A_NUM_CHANNELS), U32(0), <<>>>>}

\* <<start_channel, num_channels, enable>> of is31fl3235a_channels_enable
EnableRangeInputs == {<<U32(2), U32(2), <<TRUE, FALSE>>>>,
                      <<U32(2), U32(2), <<FALSE, TRUE>>>>,
                      <<U32(27), U32(2), <<TRUE, TRUE>>>>}

Operations ==
    {Operation("led_set_brightness", led, U32(1), 200, <<>>, FALSE, <<>>) :
        led \in LedInputs}
    \cup {Operation("set_brightness_no_update", led, U32(1), 100, <<>>,
                    FALSE, <<>>) :
        led \in {U32(0), U32(IS31FL3235A_NUM_CHANNELS)}}
    \cup {Operation("led_write_channels", r[1], r[2], 0, r[3], FALSE, <<>>) :
        r \in RangeInputs}
    \cup {Operation("write_channels_no_update", r[1], r[2], 0, r[3], FALSE,
                    <<>>) :
        r \in {q \in RangeInputs : q[1] \in {U32(0), U32(27)}}}
    \cup {Operation("set_current_scale", U32(3), U32(1), sc, <<>>, FALSE,
                    <<>>) :
        sc \in {IS31FL3235A_SCALE_1_2X, IS31FL3235A_SCALE_1_4X,
                IS31FL3235A_SCALE_1_4X + 1}}
    \cup {Operation("set_current_scale", U32(IS31FL3235A_NUM_CHANNELS),
                    U32(1), IS31FL3235A_SCALE_1_2X, <<>>, FALSE, <<>>)}
    \cup {Operation("channel_enable", c[1], U32(1), 0, <<>>, c[2], <<>>) :
        c \in {<<U32(3), FALSE>>, <<U32(3), TRUE>>,
               <<U32(IS31FL3235A_NUM_CHANNELS), TRUE>>}}
    \cup {Operation("channels_enable", r[1], r[2], 0, <<>>, FALSE, r[3]) :
        r \in EnableRangeInputs}
    \cup {Operation(nm, U32(0), U32(0), 0, <<>>, e, <<>>) :
        nm \in {"sw_shutdown", "hw_shutdown"}, e \in BOOLEAN}
    \cup {Operation("update", U32(0), U32(0), 0, <<>>, FALSE, <<>>)}

BrightnessOps == {"led_set_brightness", "set_brightness_no_update"}
WriteChannelsOps == {"led_write_channels", "write_channels_no_update"}
NoUpdateOps == {"set_brightness_no_update", "write_channels_no_update"}
PwmOps == BrightnessOps \cup WriteChannelsOps
CtrlOps == {"set_current_scale", "channel_enable", "channels_enable"}
BufferOps == WriteChannelsOps \cup {"channels_enable"}

(***************************************************************************)
(* Argument validation, done before k_mutex_lock                           *)
(***************************************************************************)
\* the comparison written > instead of >=
ChannelInvalidOffByOne(ch) == U32Gt(ch, U32(IS31FL3235A_NUM_CHANNELS))

\* if (led >= IS31FL3235A_NUM_CHANNELS) return -EINVAL;
ChannelInvalid(ch) == U32Ge(ch, U32(IS31FL3235A_NUM_CHANNELS))

\* the range test left out
RangeNeverInvalid32(start, n) == FALSE

\* if (start_channel + num_channels > IS31FL3235A_NUM_CHANNELS), in uint32_t
RangeInvalid32(start, n) ==
    U32Gt(U32Add(start, n), U32(IS31FL3235A_NUM_CHANNELS))

\* the same test on uint8_t operands, promoted to int: no wrap-around
RangeInvalid8(start, n) ==
    U32Low(start) + U32Low(n) > IS31FL3235A_NUM_CHANNELS

\* the scale test left out
ScaleNeverInvalid(scale) == FALSE

\* if (scale > IS31FL3235A_SCALE_1_4X) return -EINVAL;
ScaleInvalid(scale) == scale > IS31FL3235A_SCALE_1_4X

\* the pin test left out
SdbNeverMissing == FALSE

\* if (!cfg->sdb_gpio.port) return -ENOTSUP;
SdbMissing == ~cfg.sdb

Validate(o) ==
    CASE o.name \in BrightnessOps ->
            IF ChannelInvalid(o.ch) THEN "-EINVAL" ELSE "ok"
      [] o.name \in WriteChannelsOps ->
            IF ChannelInvalid(o.ch) THEN "-EINVAL"
            ELSE IF RangeInvalid32(o.ch, o.n) THEN "-EINVAL" ELSE "ok"
      [] o.name = "set_current_scale" ->
            IF ChannelInvalid(o.ch) THEN "-EINVAL"
            ELSE IF ScaleInvalid(o.val) THEN "-EINVAL" ELSE "ok"
      [] o.name = "channel_enable" ->
            IF ChannelInvalid(o.ch) THEN "-EINVAL" ELSE "ok"
      [] o.name = "channels_enable" ->
            IF ChannelInvalid(o.ch) THEN "-EINVAL"
            ELSE IF RangeInvalid8(o.ch, o.n) THEN "-EINVAL" ELSE "ok"
      [] o.name = "hw_shutdown" ->
            IF SdbMissing THEN "-ENOTSUP" ELSE "ok"
      [] OTHER -> "ok"

(***************************************************************************)
(* Control byte arithmetic on uint8_t                                      *)
(***************************************************************************)
Bit(v, k) == (v \div (2 ^ k)) % 2

RECURSIVE AndNotFrom(_, _, _)
AndNotFrom(v, m, k) ==
    IF k > 7 THEN 0
    ELSE (Bit(v, k) * (1 - Bit(m, k))) * (2 ^ k) + AndNotFrom(v, m, k + 1)

\* v & ~m
AndNot8(v, m) == AndNotFrom(v, m, 0)

RECURSIVE OrFrom(_, _, _)
OrFrom(v, m, k) ==
    IF k > 7 THEN 0
    ELSE (IF Bit(v, k) + Bit(m, k) > 0 THEN 2 ^ k ELSE 0) + OrFrom(v, m, k + 1)

\* v | m
Or8(v, m) == OrFrom(v, m, 0)

\* the control byte rebuilt from the scale alone
SetScaleClobber(ctrl_val, scale) ==
    (scale * (2 ^ IS31FL3235A_CTRL_SL_SHIFT)) % (UINT8_MAX + 1)

\* ctrl_val &= ~IS31FL3235A_CTRL_SL_MASK; ctrl_val |= scale << SL_SHIFT
SetScale(ctrl_val, scale) ==
    Or8(AndNot8(ctrl_val, IS31FL3235A_CTRL_SL_MASK),
        (scale * (2 ^ IS31FL3235A_CTRL_SL_SHIFT)) % (UINT8_MAX + 1))

\* the control byte rebuilt from the enable bit alone
SetEnableClobber(ctrl_val, enable) ==
    IF enable THEN IS31FL3235A_CTRL_OUT_ENABLE ELSE 0

\* ctrl_val |= OUT_ENABLE, or ctrl_val &= ~OUT_ENABLE
SetEnable(ctrl_val, enable) ==
    IF enable THEN Or8(ctrl_val, IS31FL3235A_CTRL_OUT_ENABLE)
    ELSE AndNot8(ctrl_val, IS31FL3235A_CTRL_OUT_ENABLE)

\* the scale field and the enable bit of a control byte
ScaleOf(ctrl_val) ==
    (ctrl_val \div (2 ^ IS31FL3235A_CTRL_SL_SHIFT)) % 4

EnableOf(ctrl_val) == Bit(ctrl_val, 0) = 1

(***************************************************************************)
(* What each operation writes, and where                                   *)
(***************************************************************************)
DataReg(o) ==
    IF o.name \in PwmOps THEN IS31FL3235A_PWM_REG(U32Low(o.ch))
    ELSE IF o.name \in CtrlOps THEN IS31FL3235A_CTRL_REG(U32Low(o.ch))
    ELSE IS31FL3235A_REG_SHUTDOWN

\* ctrl_buf built from the enable flags alone, the cached scale dropped
CtrlBufFresh(cache, start, n, enable) ==
    [i \in 1 .. n |-> IF enable[i] THEN IS31FL3235A_CTRL_OUT_ENABLE ELSE 0]

\* the loop of is31fl3235a_channels_enable building ctrl_buf
CtrlBuf(cache, start, n, enable) ==
    [i \in 1 .. n |-> SetEnable(cache[start + i - 1], enable[i])]

DataBytes(o, cache) ==
    CASE o.name \in BrightnessOps -> <<o.val>>
      [] o.name \in WriteChannelsOps -> SubSeq(o.vals, 1, U32Low(o.n))
      [] o.name = "set_current_scale" ->
            <<SetScale(cache[U32Low(o.ch)], o.val)>>
      [] o.name = "channel_enable" ->
            <<SetEnable(cache[U32Low(o.ch)], o.en)>>
      [] o.name = "channels_enable" ->
            CtrlBuf(cache, U32Low(o.ch), U32Low(o.n), o.ens)
      [] OTHER ->
            <<IF o.en THEN IS31FL3235A_SHUTDOWN_MODE
              ELSE IS31FL3235A_SHUTDOWN_NORMAL>>

\* if (len > sizeof(write_buf) - 1) return -EINVAL;
LenTooBig(len) == U32Gt(len, U32(WRITE_BUF_SIZE - 1))

\* the copy stopping one byte short
MemcpyShort(cache, start, data) ==
    [i \in ChannelIdx |->
        IF i >= start /\ i < start + Len(data) - 1 THEN data[i - start + 1]
        ELSE cache[i]]

\* the copy that zeroes the entries it does not address
MemcpyClears(cache, start, data) ==
    [i \in ChannelIdx |->
        IF i >= start /\ i < start + Len(data) THEN data[i - start + 1]
        ELSE 0]

\* memcpy(&cache[start], data, Len(data)), or cache[start] = value
Memcpy(cache, start, data) ==
    [i \in ChannelIdx |->
        IF i >= start /\ i < start + Len(data) THEN data[i - start + 1]
        ELSE cache[i]]

\* the cache updated before anything is written
FirstStepStore(o) == "store"

\* where an operation goes once it holds the lock
FirstStep(o) ==
    IF o.name = "hw_shutdown" THEN "pin"
    ELSE IF o.name = "update" THEN "trigger"
    ELSE "write"

\* the error check left out
AfterWriteUnchecked(ok) == "store"

\* the error path returning without k_mutex_unlock
AfterWriteLeaks(ok) == IF ok THEN "store" ELSE "done"

\* if (ret < 0) goto unlock; after the data write or the pin write
AfterWrite(ok) == IF ok THEN "store" ELSE "unlock"

\* no operation triggering
AfterStoreNoTrigger(o) == "unlock"

\* every operation triggering
AfterStoreAlwaysTrigger(o) == "trigger"

\* hw_shutdown(false) returning without the startup delay
AfterStoreNoDelay(o) ==
    IF o.name \in NoUpdateOps \/ o.name \in {"sw_shutdown", "hw_shutdown"}
        THEN "unlock"
    ELSE "trigger"

\* where an operation goes after updating the cache or the flag
AfterStore(o) ==
    IF o.name \in NoUpdateOps \/ o.name = "sw_shutdown" THEN "unlock"
    ELSE IF o.name = "hw_shutdown" THEN (IF o.en THEN "unlock" ELSE "delay")
    ELSE "trigger"

(***************************************************************************)
(* The callers: one action per step of an operation                        *)
(***************************************************************************)
\* A return touches only the returning caller's locals, so it commutes with
\* every step of the other callers: it is taken first.
Returned == \A u \in Callers : pc[u] # "done"

(***************************************************************************)
(* History kept beside the program state                                   *)
(***************************************************************************)
\* the channels start .. start + n - 1
Range(start, n) == {i \in ChannelIdx : i >= start /\ i < start + n}

\* scale and enable as set by the calls that returned 0; failed once a
\* control call returned a transport error
RecordCall(h, o, r) ==
    IF o.name \notin CtrlOps \/ r \notin {"0", "-EIO"} THEN h
    ELSE IF r = "-EIO" THEN [h EXCEPT !.failed = TRUE]
    ELSE IF o.name = "set_current_scale"
        THEN [h EXCEPT !.scale[U32Low(o.ch)] = o.val]
    ELSE IF o.name = "channel_enable"
        THEN [h EXCEPT !.enable[U32Low(o.ch)] = o.en]
    ELSE [h EXCEPT !.enable =
            [i \in ChannelIdx |->
                IF i \in Range(U32Low(o.ch), U32Low(o.n))
                    THEN o.ens[i - U32Low(o.ch) + 1]
                    ELSE h.enable[i]]]

\* the channels a no-update call has staged
Staged(o) ==
    IF o.name \in NoUpdateOps THEN Range(U32Low(o.ch), U32Low(o.n)) ELSE {}

\* the channels whose staging register an acked data write has changed
Pend(p, o, data) ==
    IF o.name \in PwmOps
        THEN [p EXCEPT !.pwm = @ \cup Range(U32Low(o.ch), Len(data))]
    ELSE IF o.name \in CtrlOps
        THEN [p EXCEPT !.ctrl = @ \cup Range(U32Low(o.ch), Len(data))]
    ELSE p

\* the callers whose calls overlap once t calls in: t and whoever is inside
\* an operation or waiting for the lock
Overlapping(t) ==
    LET inside == {u \in Callers \ {t} : pc[u] \notin {"idle", "done"}}
    IN  IF inside = {} THEN overlap ELSE overlap \cup inside \cup {t}

\* the caller checked device_is_ready (src/sample/main.c) and calls in
Call(t, o, limit) ==
    /\ pc[t] = "idle"
    /\ Returned
    /\ ipc = "ready"
    /\ calls < limit
    /\ calls' = calls + 1
    /\ op' = [op EXCEPT ![t] = o]
    /\ IF Validate(o) = "ok"
          THEN /\ pc' = [pc EXCEPT ![t] = "lock"]
               /\ ret' = [ret EXCEPT ![t] = "none"]
          ELSE /\ pc' = [pc EXCEPT ![t] = "done"]
               /\ ret' = [ret EXCEPT ![t] = Validate(o)]
    /\ overlap' = Overlapping(t)
    /\ UNCHANGED <<cfg, lock, dataVars, chip, sdb_pin, initVars, wbuf, wlog,
                   pre, hist, deferred, pending>>

\* the lock taken whether or not it is free
LockAnyway(t) ==
    /\ pc[t] = "lock"
    /\ Returned
    /\ lock' = t
    /\ pc' = [pc EXCEPT ![t] = FirstStep(op[t])]
    /\ pre' = [pre EXCEPT ![t] = [pwm |-> pwm_cache, ctrl |-> ctrl_cache]]
    /\ UNCHANGED <<cfg, dataVars, chip, sdb_pin, initVars, op, ret, wbuf,
                   wlog, calls, hist, deferred, pending, overlap>>

\* k_mutex_lock(&data->lock, K_FOREVER)
Lock(t) ==
    /\ pc[t] = "lock"
    /\ Returned
    /\ lock = "free"
    /\ lock' = t
    /\ pc' = [pc EXCEPT ![t] = FirstStep(op[t])]
    /\ pre' = [pre EXCEPT ![t] = [pwm |-> pwm_cache, ctrl |-> ctrl_cache]]
    /\ UNCHANGED <<cfg, dataVars, chip, sdb_pin, initVars, op, ret, wbuf,
                   wlog, calls, hist, deferred, pending, overlap>>

\* is31fl3235a_write_reg / is31fl3235a_write_buffer of the data
Write(t) ==
    /\ pc[t] = "write"
    /\ Returned
    /\ LET o == op[t]
           data == DataBytes(o, ctrl_cache)
       IN  \/ /\ o.name \in BufferOps
              /\ LenTooBig(o.n)
              /\ ret' = [ret EXCEPT ![t] = "-EINVAL"]
              /\ pc' = [pc EXCEPT ![t] = "unlock"]
              /\ UNCHANGED <<chip, wbuf, wlog, pending>>
           \/ /\ ~(o.name \in BufferOps /\ LenTooBig(o.n))
              /\ I2cWriteOk(DataReg(o), data)
              /\ wbuf' = [wbuf EXCEPT ![t] = data]
              /\ wlog' = [wlog EXCEPT
                            ![t] = Append(@, BusWrite(DataReg(o), data, TRUE))]
              /\ ret' = [ret EXCEPT ![t] = "0"]
              /\ pc' = [pc EXCEPT ![t] = AfterWrite(TRUE)]
              /\ pending' = Pend(pending, o, data)
           \/ /\ ~(o.name \in BufferOps /\ LenTooBig(o.n))
              /\ I2cWriteFail(DataReg(o), data)
              /\ wlog' = [wlog EXCEPT
                            ![t] = Append(@, BusWrite(DataReg(o), data, FALSE))]
              /\ ret' = [ret EXCEPT ![t] = "-EIO"]
              /\ pc' = [pc EXCEPT ![t] = AfterWrite(FALSE)]
              /\ UNCHANGED <<wbuf, pending>>
    /\ UNCHANGED <<cfg, lock, dataVars, sdb_pin, initVars, op, calls, pre,
                   hist, deferred, overlap>>

\* gpio_pin_set_dt(&cfg->sdb_gpio, shutdown ? 0 : 1)
Pin(t) ==
    /\ pc[t] = "pin"
    /\ Returned
    /\ \/ /\ sdb_pin' = IF op[t].en THEN 0 ELSE 1
          /\ ret' = [ret EXCEPT ![t] = "0"]
          /\ pc' = [pc EXCEPT ![t] = AfterWrite(TRUE)]
       \/ /\ sdb_pin' = sdb_pin
          /\ ret' = [ret EXCEPT ![t] = "-EIO"]
          /\ pc' = [pc EXCEPT ![t] = AfterWrite(FALSE)]
    /\ UNCHANGED <<cfg, lock, dataVars, chip, initVars, op, wbuf, wlog,
                   calls, pre, hist, deferred, pending, overlap>>

\* the bytes memcpy reads: buf for the PWM operations, ctrl_buf / ctrl_val
\* for the control operations
StoreSource(t, o) ==
    IF o.name \in WriteChannelsOps THEN SubSeq(o.vals, 1, U32Low(o.n))
    ELSE IF o.name \in BrightnessOps THEN <<o.val>>
    ELSE wbuf[t]

\* one flag following the other
StoreDataJoint(t, o) ==
    /\ pwm_cache' = IF o.name \in PwmOps
                       THEN Memcpy(pwm_cache, U32Low(o.ch), StoreSource(t, o))
                       ELSE pwm_cache
    /\ ctrl_cache' = IF o.name \in CtrlOps
                        THEN Memcpy(ctrl_cache, U32Low(o.ch), StoreSource(t, o))
                        ELSE ctrl_cache
    /\ sw_shutdown' = IF o.name = "sw_shutdown" THEN o.en ELSE sw_shutdown
    /\ hw_shutdown' = IF o.name \in {"sw_shutdown", "hw_shutdown"}
                         THEN o.en ELSE hw_shutdown

\* the assignment to the cache or to the flag after the successful write
StoreData(t, o) ==
    /\ pwm_cache' = IF o.name \in PwmOps
                       THEN Memcpy(pwm_cache, U32Low(o.ch), StoreSource(t, o))
                       ELSE pwm_cache
    /\ ctrl_cache' = IF o.name \in CtrlOps
                        THEN Memcpy(ctrl_cache, U32Low(o.ch), StoreSource(t, o))
                        ELSE ctrl_cache
    /\ sw_shutdown' = IF o.name = "sw_shutdown" THEN o.en ELSE sw_shutdown
    /\ hw_shutdown' = IF o.name = "hw_shutdown" THEN o.en ELSE hw_shutdown

Store(t) ==
    /\ pc[t] = "store"
    /\ Returned
    /\ StoreData(t, op[t])
    /\ pc' = [pc EXCEPT ![t] = AfterStore(op[t])]
    /\ deferred' = deferred \cup Staged(op[t])
    /\ UNCHANGED <<cfg, lock, initialized, chip, sdb_pin, initVars, op,
                   ret, wbuf, wlog, calls, pre, hist, pending, overlap>>

\* is31fl3235a_trigger_update(dev)
Trigger(t) ==
    /\ pc[t] = "trigger"
    /\ Returned
    /\ \/ /\ I2cWriteOk(IS31FL3235A_REG_UPDATE,
                        <<IS31FL3235A_UPDATE_TRIGGER>>)
          /\ wlog' = [wlog EXCEPT
                        ![t] = Append(@, BusWrite(IS31FL3235A_REG_UPDATE,
                                   <<IS31FL3235A_UPDATE_TRIGGER>>, TRUE))]
          /\ ret' = [ret EXCEPT ![t] = "0"]
          /\ deferred' = {}
          /\ pending' = NoPending
       \/ /\ I2cWriteFail(IS31FL3235A_REG_UPDATE,
                          <<IS31FL3235A_UPDATE_TRIGGER>>)
          /\ wlog' = [wlog EXCEPT
                        ![t] = Append(@, BusWrite(IS31FL3235A_REG_UPDATE,
                                   <<IS31FL3235A_UPDATE_TRIGGER>>, FALSE))]
          /\ ret' = [ret EXCEPT ![t] = "-EIO"]
          /\ deferred' = deferred
          /\ pending' = pending
    /\ pc' = [pc EXCEPT ![t] = "unlock"]
    /\ UNCHANGED <<cfg, lock, dataVars, sdb_pin, initVars, op, wbuf, calls,
                   pre, hist, overlap>>

\* k_msleep(IS31FL3235A_STARTUP_DELAY_MS), the lock still held
Delay(t) ==
    /\ pc[t] = "delay"
    /\ Returned
    /\ pc' = [pc EXCEPT ![t] = "unlock"]
    /\ UNCHANGED <<cfg, lock, dataVars, chip, sdb_pin, initVars, op, ret,
                   wbuf, wlog, calls, pre, hist, deferred, pending, overlap>>

\* returning with the lock still held
UnlockKeeps(t) ==
    /\ pc[t] = "unlock"
    /\ Returned
    /\ lock' = lock
    /\ pc' = [pc EXCEPT ![t] = "done"]
    /\ hist' = RecordCall(hist, op[t], ret[t])
    /\ UNCHANGED <<cfg, dataVars, chip, sdb_pin, initVars, op, ret, wbuf,
                   wlog, calls, pre, deferred, pending, overlap>>

\* k_mutex_unlock(&data->lock); return ret;
Unlock(t) ==
    /\ pc[t] = "unlock"
    /\ Returned
    /\ lock' = "free"
    /\ pc' = [pc EXCEPT ![t] = "done"]
    /\ hist' = RecordCall(hist, op[t], ret[t])
    /\ UNCHANGED <<cfg, dataVars, chip, sdb_pin, initVars, op, ret, wbuf,
                   wlog, calls, pre, deferred, pending, overlap>>

\* the caller has the return value and is free to call again
Return(t) ==
    /\ pc[t] = "done"
    /\ pc' = [pc EXCEPT ![t] = "idle"]
    /\ op' = [op EXCEPT ![t] = NoOp]
    /\ ret' = [ret EXCEPT ![t] = "none"]
    /\ wbuf' = [wbuf EXCEPT ![t] = <<>>]
    /\ wlog' = [wlog EXCEPT ![t] = <<>>]
    /\ pre' = [pre EXCEPT ![t] = NoCaches]
    /\ overlap' = overlap \ {t}
    /\ UNCHANGED <<cfg, lock, dataVars, chip, sdb_pin, initVars, calls, hist,
                   deferred, pending>>

CallerStep(callers, limit) ==
    \E t \in callers :
        \/ \E o \in Operations : Call(t, o, limit)
        \/ Lock(t)
        \/ Write(t)
        \/ Pin(t)
        \/ Store(t)
        \/ Trigger(t)
        \/ Delay(t)
        \/ Unlock(t)
        \/ Return(t)

\* two callers at once
Next == InitStep \/ CallerStep(Callers, MaxCalls)

Spec == Init /\ [][Next]_vars

\* a step of caller t once it holds the lock or has its return value: every
\* transport call, pin call and sleep returns
Proceed(t) ==
    \/ Write(t) \/ Pin(t) \/ Store(t) \/ Trigger(t) \/ Delay(t)
    \/ Unlock(t) \/ Return(t)

\* k_mutex_lock(&data->lock, K_FOREVER): a waiting caller gets the lock once
\* it is released; a running caller keeps running
Fairness ==
    \A t \in Callers : WF_vars(Proceed(t)) /\ SF_vars(Lock(t))

\* two callers at once, fairly scheduled
SpecFair == Init /\ [][Next]_vars /\ Fairness

\* one caller, one call after another
NextSeq == InitStep \/ CallerStep({"t1"}, MaxSeqCalls)

SpecSeq == Init /\ [][NextSeq]_vars

\* a caller that does not check device_is_ready: the operations never read
\* data->initialized, so the call proceeds as on a ready instance
CallUnready(t, o, limit) ==
    /\ pc[t] = "idle"
    /\ Returned
    /\ ipc = "failed"
    /\ calls < limit
    /\ calls' = calls + 1
    /\ op' = [op EXCEPT ![t] = o]
    /\ IF Validate(o) = "ok"
          THEN /\ pc' = [pc EXCEPT ![t] = "lock"]
               /\ ret' = [ret EXCEPT ![t] = "none"]
          ELSE /\ pc' = [pc EXCEPT ![t] = "done"]
               /\ ret' = [ret EXCEPT ![t] = Validate(o)]
    /\ overlap' = Overlapping(t)
    /\ UNCHANGED <<cfg, lock, dataVars, chip, sdb_pin, initVars, wbuf, wlog,
                   pre, hist, deferred, pending>>

\* one caller, calling also after is31fl3235a_init has returned an error
NextUnready ==
    \/ InitStep
    \/ CallerStep({"t1"}, MaxUnreadyCalls)
    \/ \E o \in Operations : CallUnready("t1", o, MaxUnreadyCalls)

SpecUnready == Init /\ [][NextUnready]_vars

(***************************************************************************)
(* Properties                                                              *)
(***************************************************************************)
\* a uint32_t index that is a channel of the chip, 0 .. 27
IsChannel(ch) == ch[1] = 0 /\ ch[2] < 28

\* every I2C write of caller t's operation was acknowledged
TransportOk(t) == \A k \in DOMAIN wlog[t] : wlog[t][k].ok

\* caller t has the return value of its operation in hand
AtReturn(t) == pc[t] = "done"

\* C1: range validation of set_brightness. With a transport that does not
\* fail, led_set_brightness(i, v) returns 0 exactly when i < 28; for every
\* i >= 28 (28 and 4294967295 among them) it returns -EINVAL, and the step
\* that rejects the call leaves pwm_cache and ctrl_cache as they were.
C1_RangeValidation ==
    /\ [](\A t \in Callers :
            AtReturn(t) /\ op[t].name = "led_set_brightness" =>
                /\ (ret[t] = "-EINVAL") <=> ~IsChannel(op[t].ch)
                /\ (ret[t] = "0") <=> (IsChannel(op[t].ch) /\ TransportOk(t))
                /\ ret[t] = "-EINVAL" => wlog[t] = <<>> /\ pre[t] = NoCaches)
    /\ [][\A t \in Callers :
            (/\ pc[t] = "idle"
             /\ op'[t].name = "led_set_brightness"
             /\ ~IsChannel(op'[t].ch))
            => (pwm_cache' = pwm_cache /\ ctrl_cache' = ctrl_cache
                /\ pc'[t] = "done")]_vars

\* C1 witness: led_set_brightness(4294967295, v) has returned -EINVAL
C1_Witness ==
    \E t \in Callers :
        /\ AtReturn(t)
        /\ op[t].name = "led_set_brightness"
        /\ op[t].ch = UINT32_MAX
        /\ ret[t] = "-EINVAL"
        /\ pwm_cache = ZeroRegs

\* the true sum start + n of two uint32_t exceeds 28 (no wrap-around)
TrueRangeExceeds(start, n) == start[1] + n[1] > 0 \/ start[2] + n[2] > 28

\* the arguments the operations are to reject: a channel that is not
\* 0 .. 27, a range with start + count > 28, a scale code outside 0 .. 3
BadArgs(o) ==
    \/ /\ o.name \in BrightnessOps \cup {"set_current_scale", "channel_enable"}
       /\ ~IsChannel(o.ch)
    \/ /\ o.name \in WriteChannelsOps \cup {"channels_enable"}
       /\ (~IsChannel(o.ch) \/ TrueRangeExceeds(o.ch, o.n))
    \/ /\ o.name = "set_current_scale"
       /\ o.val \notin 0 .. 3

\* C2: rejection before any side effect. Every public operation called
\* with an out-of-range channel, a range with start + count > 28 or an
\* invalid scale code returns -EINVAL without issuing a transport write,
\* without acquiring the lock, and with pwm_cache, ctrl_cache, sw_shutdown
\* and hw_shutdown unchanged.
C2_RejectBeforeLock ==
    \A t \in Callers :
        BadArgs(op[t]) =>
            /\ lock # t
            /\ wlog[t] = <<>>
            /\ pre[t] = NoCaches
            /\ pc[t] \in {"idle", "done"}
            /\ AtReturn(t) => ret[t] = "-EINVAL"

\* C2 witness: the wrapping range 27 + 4294967295 has passed validation and
\* its caller holds the lock
C2_WrapTakesLock ==
    \E t \in Callers :
        /\ op[t].name = "led_write_channels"
        /\ op[t].ch = U32(27) /\ op[t].n = UINT32_MAX
        /\ lock = t

\* C3: cache fidelity. After a successful initialization, in every state in
\* which no operation holds the lock, pwm_cache[i] is the value last written
\* successfully to channel i's PWM staging register and ctrl_cache[i] the
\* byte last written successfully to its control staging register.
C3_CacheFidelity ==
    (initialized /\ lock = "free") =>
        \A i \in ChannelIdx :
            /\ pwm_cache[i] = chip.pwm[i]
            /\ ctrl_cache[i] = chip.ctrl[i]

\* C3 witness: a brightness was staged and cached by a call whose trigger
\* write failed, and a control byte was changed by another call
C3_Witness ==
    /\ initialized /\ lock = "free"
    /\ pwm_cache[0] = 200 /\ chip.pwm[0] = 200 /\ chip.out_pwm[0] = 0
    /\ ctrl_cache[3] # IS31FL3235A_CTRL_ENABLE_1X
    /\ ctrl_cache[3] = chip.ctrl[3]

\* the mutation operations: they write a channel register and the cache
MutationOps == PwmOps \cup CtrlOps

\* C4 as stated: whenever a mutation operation returns a transport error,
\* whichever transport call failed, pwm_cache and ctrl_cache equal the
\* values they had before the call.
C4_CachesUnchangedOnError ==
    \A t \in Callers :
        (AtReturn(t) /\ op[t].name \in MutationOps /\ ret[t] = "-EIO") =>
            /\ pwm_cache = pre[t].pwm
            /\ ctrl_cache = pre[t].ctrl

\* C4 amended: when a mutation operation returns a transport error because
\* its data write failed, both caches equal their pre-call values and no
\* Update write was issued; when the data write succeeded and the
\* Update-register write failed, the cache entries of the addressed
\* channels hold the bytes written (as the staging registers do) and every
\* other entry of both caches keeps its pre-call value.
C4_CacheOnTransportError ==
    \A t \in Callers :
        (AtReturn(t) /\ op[t].name \in MutationOps /\ ret[t] = "-EIO") =>
            LET w == wlog[t]
                o == op[t]
            IN  /\ Len(w) >= 1
                /\ w[1].reg = DataReg(o)
                /\ ~w[1].ok =>
                      /\ Len(w) = 1
                      /\ pwm_cache = pre[t].pwm
                      /\ ctrl_cache = pre[t].ctrl
                /\ w[1].ok =>
                      /\ Len(w) = 2
                      /\ w[2].reg = IS31FL3235A_REG_UPDATE /\ ~w[2].ok
                      /\ o.name \notin NoUpdateOps
                      /\ \A i \in ChannelIdx :
                            LET written == i \in Range(U32Low(o.ch), Len(w[1].data))
                                byte == w[1].data[i - U32Low(o.ch) + 1]
                            IN  /\ pwm_cache[i] =
                                    IF written /\ o.name \in PwmOps
                                        THEN byte ELSE pre[t].pwm[i]
                                /\ ctrl_cache[i] =
                                    IF written /\ o.name \in CtrlOps
                                        THEN byte ELSE pre[t].ctrl[i]

\* C4 witness: led_write_channels(0, 3, ...) returns the transport error of
\* its Update write with the three new values in the cache
C4_Witness ==
    \E t \in Callers :
        /\ AtReturn(t) /\ op[t].name = "led_write_channels"
        /\ ret[t] = "-EIO" /\ Len(wlog[t]) = 2
        /\ pre[t].pwm[0] = 0 /\ pwm_cache[0] = UINT8_MAX
        /\ pwm_cache[1] = 200 /\ pwm_cache[2] = 100

\* C5: scale/enable independence. After any sequence of successful
\* set_current_scale, channel_enable and channels_enable calls, for every
\* channel c the scale field of ctrl_cache[c] is the scale of the most
\* recent set_current_scale on c (full scale if none) and bit 0 is the
\* enable value of the most recent channel_enable / channels_enable
\* covering c (enabled if none).
C5_ScaleEnableIndependence ==
    (initialized /\ lock = "free" /\ ~hist.failed) =>
        \A c \in ChannelIdx :
            /\ ScaleOf(ctrl_cache[c]) = hist.scale[c]
            /\ EnableOf(ctrl_cache[c]) = hist.enable[c]

\* C5 witness: channel_enable(3, false); set_current_scale(3, HALF);
\* channel_enable(3, true) has returned with enable = 1 and scale = HALF
C5_Witness ==
    /\ AtReturn("t1") /\ op["t1"].name = "channel_enable"
    /\ op["t1"].ch = U32(3) /\ op["t1"].en /\ ret["t1"] = "0"
    /\ calls = 3 /\ ~hist.failed
    /\ pre["t1"].ctrl[3] = 2
    /\ ScaleOf(ctrl_cache[3]) = IS31FL3235A_SCALE_1_2X
    /\ EnableOf(ctrl_cache[3])

\* the bytes led_write_channels is to send
BatchValues(o) == SubSeq(o.vals, 1, U32Low(o.n))

\* C6: batch atomicity of visibility. A successful led_write_channels
\* issues exactly one multi-byte data write followed by exactly one write
\* to the Update register, and every step taken while the call holds the
\* lock either leaves the active PWM outputs as they were or switches all
\* channels of the range to their new values at once.
C6_BatchAtomicity ==
    /\ [](\A t \in Callers :
            (AtReturn(t) /\ op[t].name = "led_write_channels"
                /\ ret[t] = "0") =>
                /\ wlog[t] =
                     <<BusWrite(IS31FL3235A_PWM_REG(U32Low(op[t].ch)),
                                BatchValues(op[t]), TRUE),
                       BusWrite(IS31FL3235A_REG_UPDATE,
                                <<IS31FL3235A_UPDATE_TRIGGER>>, TRUE)>>
                /\ \A i \in Range(U32Low(op[t].ch), U32Low(op[t].n)) :
                      chip.out_pwm[i] = op[t].vals[i - U32Low(op[t].ch) + 1])
    /\ [][\A t \in Callers :
            (lock = t /\ op[t].name = "led_write_channels") =>
                \/ chip'.out_pwm = chip.out_pwm
                \/ \A i \in Range(U32Low(op[t].ch), U32Low(op[t].n)) :
                      chip'.out_pwm[i] = op[t].vals[i - U32Low(op[t].ch) + 1]]_vars

\* C6 witness: led_write_channels(0, 3, {255, 200, 100}) has returned 0 and
\* the three outputs, 0 before the call, show the three new values
C6_Witness ==
    \E t \in Callers :
        /\ AtReturn(t) /\ op[t].name = "led_write_channels" /\ ret[t] = "0"
        /\ Len(wlog[t]) = 2 /\ Len(wlog[t][1].data) = 3
        /\ pre[t].pwm[1] = 0
        /\ chip.out_pwm[0] = UINT8_MAX
        /\ chip.out_pwm[1] = 200 /\ chip.out_pwm[2] = 100

\* caller t has just written the Update register, by the operation update()
UpdateCalled(t) ==
    /\ pc[t] = "trigger" /\ pc'[t] = "unlock"
    /\ op[t].name = "update"

\* caller t has just written the Update register and the write was acked
UpdateWritten(t) ==
    /\ pc[t] = "trigger" /\ pc'[t] = "unlock"
    /\ ret'[t] = "0"

\* C7 as stated: after a successful no-update call the visible output of
\* the affected channels remains at its prior value until update() is
\* called, whatever other callers' operations run in between.
C7_VisibleOnlyByUpdate ==
    [][\A c \in deferred :
            chip'.out_pwm[c] # chip.out_pwm[c] =>
                \E t \in Callers : UpdateCalled(t)]_vars

\* C7 amended: after a successful set_brightness_no_update or
\* write_channels_no_update the cache holds the new values at once and the
\* operation has written no Update register and changed no visible output;
\* the visible output of the affected channels remains at its prior value
\* until the next acknowledged write to the Update register on that
\* instance, by update() or by the trigger of any other operation of any
\* caller, which applies every staged value.
C7_Deferral ==
    /\ [](\A t \in Callers :
            (AtReturn(t) /\ op[t].name \in NoUpdateOps /\ ret[t] = "0") =>
                /\ Len(wlog[t]) = 1
                /\ wlog[t][1].reg = IS31FL3235A_PWM_REG(U32Low(op[t].ch))
                /\ \A i \in Range(U32Low(op[t].ch), U32Low(op[t].n)) :
                      pwm_cache[i] = wlog[t][1].data[i - U32Low(op[t].ch) + 1])
    /\ [][\A t \in Callers :
            (lock = t /\ op[t].name \in NoUpdateOps) =>
                (chip'.out_pwm = chip.out_pwm
                 /\ chip'.out_ctrl = chip.out_ctrl)]_vars
    /\ [][\A c \in deferred :
            chip'.out_pwm[c] # chip.out_pwm[c] =>
                /\ \E t \in Callers : UpdateWritten(t)
                /\ chip'.out_pwm = chip.pwm]_vars

\* C7 witness: set_brightness_no_update(0, 100) was applied to the visible
\* output by the trigger of a channel_enable call, which has returned
C7_Witness ==
    \E t \in Callers :
        /\ AtReturn(t) /\ op[t].name = "channel_enable" /\ ret[t] = "0"
        /\ pwm_cache[0] = 100 /\ chip.out_pwm[0] = 100
        /\ deferred = {}

\* caller t takes a step of the operation it is in
Acts(t) == pc[t] # "idle" /\ pc'[t] # pc[t]

\* caller t enters an operation named nm
Enters(t, nm) == pc[t] = "idle" /\ pc'[t] # "idle" /\ op'[t].name = nm

\* C8: on an instance with no shutdown pin, every hw_shutdown call returns
\* -ENOTSUP without taking the lock, without any pin or transport access,
\* and with sw_shutdown, hw_shutdown and both caches unchanged.
C8_NoPinUnsupported ==
    /\ [][\A t \in Callers :
            (Enters(t, "hw_shutdown") /\ ~cfg.sdb) =>
                /\ pc'[t] = "done" /\ ret'[t] = "-ENOTSUP"
                /\ wlog'[t] = <<>>
                /\ UNCHANGED <<lock, dataVars, chip, sdb_pin>>]_vars
    /\ [](\A t \in Callers :
            (op[t].name = "hw_shutdown" /\ ~cfg.sdb) =>
                /\ pc[t] = "done" /\ ret[t] = "-ENOTSUP"
                /\ lock # t /\ wlog[t] = <<>> /\ pre[t] = NoCaches
                /\ sdb_pin = 0 /\ ~hw_shutdown)

\* C8 witness: on the instance without a pin, hw_shutdown(true) has returned
\* -ENOTSUP after a sw_shutdown(true), and sw_shutdown is still true
C8_Witness ==
    \E t \in Callers :
        /\ ~cfg.sdb /\ AtReturn(t)
        /\ op[t].name = "hw_shutdown" /\ op[t].en
        /\ ret[t] = "-ENOTSUP"
        /\ sw_shutdown /\ ~hw_shutdown /\ calls = 2

\* C9: the shutdown flags are independent. No step of sw_shutdown changes
\* hw_shutdown, a cache, the pin or any chip register but Shutdown, and it
\* writes no Update register; no step of hw_shutdown changes sw_shutdown, a
\* cache or a chip register, and it writes nothing on the bus; no step of a
\* channel operation or of update() changes either flag; entering an
\* operation changes nothing.
C9_ShutdownIndependence ==
    [][\A t \in Callers :
            /\ (pc[t] = "idle" /\ pc'[t] # "idle") =>
                  UNCHANGED <<dataVars, chip, sdb_pin>>
            /\ (Acts(t) /\ op[t].name = "sw_shutdown") =>
                  /\ UNCHANGED <<hw_shutdown, pwm_cache, ctrl_cache, sdb_pin,
                                 initialized>>
                  /\ chip' = [chip EXCEPT !.shutdown = chip'.shutdown]
                  /\ \A k \in DOMAIN wlog'[t] :
                        wlog'[t][k].reg = IS31FL3235A_REG_SHUTDOWN
            /\ (Acts(t) /\ op[t].name = "hw_shutdown") =>
                  /\ UNCHANGED <<sw_shutdown, pwm_cache, ctrl_cache, chip,
                                 initialized>>
                  /\ wlog'[t] = <<>>
            /\ (Acts(t) /\ op[t].name \notin {"sw_shutdown", "hw_shutdown"}) =>
                  UNCHANGED <<sw_shutdown, hw_shutdown>>]_vars

\* C9 witness: on the instance with a pin, hw_shutdown(true) has returned 0
\* while sw_shutdown was true: both flags are true
C9_Witness ==
    \E t \in Callers :
        /\ cfg.sdb /\ AtReturn(t)
        /\ op[t].name = "hw_shutdown" /\ ret[t] = "0"
        /\ sw_shutdown /\ hw_shutdown /\ sdb_pin = 0

\* C10: initialization baseline. When is31fl3235a_init returns 0,
\* initialized is true, sw_shutdown is false, pwm_cache[i] = 0 and
\* ctrl_cache[i] = 0x01 for all 28 channels, and exactly one write to the
\* Update register occurred, after all 56 channel register writes.
C10_InitBaseline ==
    /\ (iret = "0") <=> (ipc = "ready")
    /\ initialized <=> (ipc = "ready")
    /\ ilog.update > 0 => (ilog.chan = 2 * IS31FL3235A_NUM_CHANNELS
                           /\ ilog.update = 1 /\ ipc = "ready")
    /\ ipc = "ready" => ilog.update = 1
    /\ (ipc = "ready" /\ calls = 0) =>
          /\ ~sw_shutdown
          /\ \A i \in ChannelIdx :
                /\ pwm_cache[i] = 0
                /\ ctrl_cache[i] = IS31FL3235A_CTRL_ENABLE_1X
                /\ ScaleOf(ctrl_cache[i]) = IS31FL3235A_SCALE_1X
                /\ EnableOf(ctrl_cache[i])

\* C10 witness: init has returned 0 on the instance with a pin and 22 kHz
\* PWM, no operation has been called yet, and the chip shows the baseline
C10_Witness ==
    /\ ipc = "ready" /\ iret = "0" /\ calls = 0 /\ initialized
    /\ cfg.sdb /\ sdb_pin = 1
    /\ chip.freq = IS31FL3235A_FREQ_22KHZ
    /\ chip.out_ctrl[27] = IS31FL3235A_CTRL_ENABLE_1X
    /\ chip.out_pwm[27] = 0
    /\ ilog = [chan |-> 2 * IS31FL3235A_NUM_CHANNELS, update |-> 1]

\* caller t is between k_mutex_lock and k_mutex_unlock
InCritical(t) ==
    pc[t] \in {"write", "pin", "store", "trigger", "delay", "unlock"}

\* caller t has just put a write on the bus
WroteOnBus(t) == wlog'[t] # wlog[t] /\ wlog'[t] # <<>>

\* C11: with concurrent callers on one instance, the bus writes of one
\* operation (data write, Update write) are never interleaved with a bus
\* write of another caller's operation: every bus write is made by the
\* holder of the lock, at most one caller is between lock and unlock, and
\* a caller about to read the cache finds in it the values of the completed
\* successful writes (the chip's staging registers).
C11_NoInterleaving ==
    /\ [](\A t, u \in Callers :
            /\ (InCritical(t) /\ InCritical(u)) => t = u
            /\ InCritical(t) => lock = t
            /\ pc[t] = "write" =>
                  (pwm_cache = chip.pwm /\ ctrl_cache = chip.ctrl))
    /\ [][\A t, u \in Callers :
            /\ WroteOnBus(t) => (lock = t /\ lock' = t)
            /\ (lock = t /\ u # t) => ~WroteOnBus(u)
            /\ (ipc = "ready" /\ chip' # chip) =>
                  \E w \in Callers : WroteOnBus(w)]_vars

\* C11 witness: one caller has made its data write and not yet its Update
\* write, while the other caller's control operation waits for the lock
C11_Witness ==
    \E t, u \in Callers :
        /\ t # u
        /\ pc[t] = "trigger" /\ Len(wlog[t]) = 1 /\ wlog[t][1].ok
        /\ op[t].name = "led_write_channels"
        /\ pc[u] = "lock" /\ op[u].name = "channels_enable"

\* no caller is inside an operation or waiting to enter one
NoOperationInProgress == \A t \in Callers : pc[t] \in {"idle", "done"}

\* C12 as stated: in every state where no operation is in progress after a
\* successful initialization, pwm_cache[i] and ctrl_cache[i] equal the
\* values the staging registers held as of the last successfully triggered
\* update, that is the values the last acked Update write made active.
C12_CacheIsLastTriggered ==
    (initialized /\ NoOperationInProgress) =>
        \A i \in ChannelIdx :
            /\ pwm_cache[i] = chip.out_pwm[i]
            /\ ctrl_cache[i] = chip.out_ctrl[i]

\* C12 amended: in every state where no operation is in progress after a
\* successful initialization, pwm_cache[i] and ctrl_cache[i] equal the
\* values the staging registers hold now; they equal the values of the last
\* successfully triggered update for every channel whose register has not
\* been written successfully since that update (by a no-update variant or
\* by an operation whose own trigger write failed).
C12_CacheVsLastTriggered ==
    (initialized /\ NoOperationInProgress) =>
        \A i \in ChannelIdx :
            /\ i \in pending.pwm => pwm_cache[i] = chip.pwm[i]
            /\ i \notin pending.pwm => pwm_cache[i] = chip.out_pwm[i]
            /\ i \in pending.ctrl => ctrl_cache[i] = chip.ctrl[i]
            /\ i \notin pending.ctrl => ctrl_cache[i] = chip.out_ctrl[i]

\* C12 witness: channel 3's scale was changed and applied, then channel 0
\* was staged to 100 and not applied: the cache is ahead of the last update
C12_Witness ==
    /\ initialized /\ NoOperationInProgress
    /\ pending = [pwm |-> {0}, ctrl |-> {}]
    /\ pwm_cache[0] = 100 /\ chip.out_pwm[0] = 0
    /\ ctrl_cache[3] # IS31FL3235A_CTRL_ENABLE_1X
    /\ chip.out_ctrl[3] = ctrl_cache[3]

\* C13: for all 32-bit start and count, led_write_channels and
\* write_channels_no_update return -EINVAL whenever the true sum
\* start + count exceeds 28, including the pairs whose 32-bit sum wraps to
\* a value <= 28; no byte is sent on the bus and pwm_cache is unchanged.
C13_WrapRejected ==
    /\ [](\A t \in Callers :
            (op[t].name \in WriteChannelsOps
                /\ TrueRangeExceeds(op[t].ch, op[t].n)) =>
                /\ wlog[t] = <<>>
                /\ pc[t] \notin {"store", "trigger"}
                /\ AtReturn(t) => ret[t] = "-EINVAL")
    /\ [][\A t \in Callers :
            (op'[t].name \in WriteChannelsOps
                /\ TrueRangeExceeds(op'[t].ch, op'[t].n)
                /\ pc'[t] # pc[t]) =>
                (chip' = chip /\ pwm_cache' = pwm_cache
                 /\ ctrl_cache' = ctrl_cache)]_vars

\* C13 witness: led_write_channels(27, 4294967295) has passed the wrapped
\* range test, was refused by is31fl3235a_write_buffer and returns -EINVAL
C13_Witness ==
    \E t \in Callers :
        /\ AtReturn(t) /\ op[t].name \in WriteChannelsOps
        /\ op[t].ch = U32(27) /\ op[t].n = UINT32_MAX
        /\ ret[t] = "-EINVAL" /\ wlog[t] = <<>>
        /\ pre[t] # NoCaches /\ pwm_cache = pre[t].pwm

\* C14: no lost update on the control byte. When set_current_scale(c, s)
\* and channel_enable(c, e) (or channels_enable covering c) are invoked
\* concurrently by different callers and both succeed, the final
\* ctrl_cache[c] and the chip's staging control byte both have scale s and
\* enable e: each operation's cache update keeps the field it does not set,
\* whichever caller got the lock first.
C14_NoLostUpdate ==
    /\ []((initialized /\ lock = "free" /\ ~hist.failed) =>
            \A c \in ChannelIdx :
                /\ ScaleOf(chip.ctrl[c]) = hist.scale[c]
                /\ EnableOf(chip.ctrl[c]) = hist.enable[c]
                /\ ctrl_cache[c] = chip.ctrl[c])
    /\ [][\A t \in Callers : \A c \in ChannelIdx :
            /\ (lock = t /\ op[t].name = "set_current_scale") =>
                  /\ EnableOf(ctrl_cache'[c]) = EnableOf(ctrl_cache[c])
                  /\ EnableOf(chip'.ctrl[c]) = EnableOf(chip.ctrl[c])
            /\ (lock = t /\ op[t].name \in {"channel_enable",
                                            "channels_enable"}) =>
                  /\ ScaleOf(ctrl_cache'[c]) = ScaleOf(ctrl_cache[c])
                  /\ ScaleOf(chip'.ctrl[c]) = ScaleOf(chip.ctrl[c])]_vars

\* C14 witness: channel_enable(3, false) was invoked while the other
\* caller's set_current_scale(3, HALF) was running, waited for the lock, and
\* has returned 0: cache and staging byte have scale HALF, enable 0
C14_Witness ==
    \E t \in Callers :
        /\ AtReturn(t) /\ t \in overlap /\ calls = 2
        /\ op[t].name = "channel_enable" /\ op[t].ch = U32(3) /\ ~op[t].en
        /\ ret[t] = "0" /\ ~hist.failed
        /\ hist.scale[3] = IS31FL3235A_SCALE_1_2X
        /\ pre[t].ctrl[3] = 3
        /\ ctrl_cache[3] = 2 /\ chip.ctrl[3] = 2

\* the cache entries of the channels operation o addresses hold the bytes
\* of the data write w
CacheHolds(o, w) ==
    \A i \in Range(U32Low(o.ch), Len(w.data)) :
        IF o.name \in PwmOps
            THEN pwm_cache[i] = w.data[i - U32Low(o.ch) + 1]
            ELSE ctrl_cache[i] = w.data[i - U32Low(o.ch) + 1]

\* C15: within every mutation operation the order is data register write,
\* then cache update, then Update-register write; if the data register
\* write fails the operation returns that error at once with the cache
\* unchanged, and issues no Update-register write and no retry.
C15_WriteCacheTrigger ==
    /\ [](\A t \in Callers :
            op[t].name \in MutationOps =>
                /\ Len(wlog[t]) <= 2
                /\ (Len(wlog[t]) >= 1 /\ ~wlog[t][1].ok) =>
                      /\ Len(wlog[t]) = 1
                      /\ pc[t] \in {"unlock", "done"}
                      /\ ret[t] = "-EIO"
                      /\ pwm_cache = pre[t].pwm /\ ctrl_cache = pre[t].ctrl)
    /\ [][\A t \in Callers :
            (lock = t /\ op[t].name \in MutationOps) =>
                /\ (pwm_cache' # pwm_cache \/ ctrl_cache' # ctrl_cache) =>
                      /\ wlog[t] = <<BusWrite(DataReg(op[t]), wbuf[t], TRUE)>>
                      /\ wlog'[t] = wlog[t]
                /\ (WroteOnBus(t) /\ Len(wlog'[t]) = 1) =>
                      /\ wlog'[t][1].reg = DataReg(op[t])
                      /\ pwm_cache = pre[t].pwm /\ ctrl_cache = pre[t].ctrl
                      /\ UNCHANGED <<pwm_cache, ctrl_cache>>
                /\ (WroteOnBus(t) /\ Len(wlog'[t]) = 2) =>
                      /\ wlog'[t][2].reg = IS31FL3235A_REG_UPDATE
                      /\ wlog[t][1].ok
                      /\ CacheHolds(op[t], wlog[t][1])
                      /\ UNCHANGED <<pwm_cache, ctrl_cache>>]_vars

\* C15 witness: led_set_brightness(0, 200) has written the PWM register and
\* updated the cache, and has not yet written the Update register
C15_Witness ==
    \E t \in Callers :
        /\ pc[t] = "trigger" /\ op[t].name = "led_set_brightness"
        /\ Len(wlog[t]) = 1 /\ wlog[t][1].ok
        /\ pre[t].pwm[0] = 0 /\ chip.pwm[0] = 200 /\ pwm_cache[0] = 200
        /\ chip.out_pwm[0] = 0

\* the order of the steps of is31fl3235a_init
InitOrder ==
    {<<"start", "sdb_ready">>, <<"start", "reset">>,
     <<"sdb_ready", "sdb_configure">>, <<"sdb_configure", "sdb_set">>,
     <<"sdb_set", "sdb_delay">>, <<"sdb_delay", "reset">>,
     <<"reset", "reset_delay">>, <<"reset_delay", "wake">>,
     <<"wake", "freq">>, <<"freq", "pwm">>, <<"pwm", "ctrl">>,
     <<"ctrl", "pwm">>, <<"ctrl", "trigger">>, <<"trigger", "ready">>}

\* init goes from position a to position b
InitGoes(a, b) == ipc = a /\ ipc' = b

\* C16: if any transport or pin call of the initialization fails, init
\* returns that error, makes no further transport or pin call (no Update
\* write in particular) and leaves initialized false; initialized becomes
\* true only after the reset, shutdown-normal, frequency, all 56 channel
\* writes and the trigger write have succeeded, in that order.
C16_InitFailure ==
    /\ [](/\ ipc = "failed" =>
                (~initialized /\ iret \in {"-ENODEV", "-EIO"}
                 /\ ilog.update = 0)
          /\ initialized => ipc = "ready")
    /\ [][/\ ipc = "failed" =>
                UNCHANGED <<chip, sdb_pin, ipc, iret, ilog, dataVars>>
          /\ (ipc # "failed" /\ ipc' = "failed") =>
                UNCHANGED <<chip, sdb_pin, ilog, dataVars>>
          /\ (ipc' # ipc /\ ipc' # "failed") => <<ipc, ipc'>> \in InitOrder
          /\ InitGoes("reset", "reset_delay") => chip' = ChipPowerOn
          /\ InitGoes("wake", "freq") =>
                chip' = [chip EXCEPT !.shutdown = IS31FL3235A_SHUTDOWN_NORMAL]
          /\ InitGoes("freq", "pwm") =>
                (chip' = [chip EXCEPT !.freq = freq_val] /\ ich = 0
                 /\ ilog.chan = 0)
          /\ InitGoes("pwm", "ctrl") =>
                (chip' = [chip EXCEPT !.pwm[ich] = 0]
                 /\ ilog.chan = 2 * ich /\ ilog'.chan = 2 * ich + 1)
          /\ (ipc = "ctrl" /\ ipc' \in {"pwm", "trigger"}) =>
                (chip' = [chip EXCEPT !.ctrl[ich] = IS31FL3235A_CTRL_ENABLE_1X]
                 /\ ilog'.chan = 2 * ich + 2 /\ ich' = ich + 1)
          /\ InitGoes("ctrl", "trigger") =>
                ilog'.chan = 2 * IS31FL3235A_NUM_CHANNELS
          /\ (~initialized /\ initialized') =>
                /\ InitGoes("trigger", "ready")
                /\ ilog.chan = 2 * IS31FL3235A_NUM_CHANNELS
                /\ ilog.update = 0 /\ ilog'.update = 1
                /\ chip'.out_pwm = chip.pwm /\ chip'.out_ctrl = chip.ctrl]_vars

\* C16 witness: the Update write of init failed after all 56 channel
\* writes: init returned the error, nothing was applied, initialized is
\* false
C16_Witness ==
    /\ ipc = "failed" /\ iret = "-EIO" /\ ~initialized
    /\ ilog = [chan |-> 2 * IS31FL3235A_NUM_CHANNELS, update |-> 0]
    /\ chip.ctrl[27] = IS31FL3235A_CTRL_ENABLE_1X
    /\ chip.out_ctrl[27] = 0

\* C17: initialization precedes every other operation. No public operation
\* issues a transport write or modifies the cache on an instance whose
\* initialized flag is false.
C17_InitPrecedesOperations ==
    [][\A t \in Callers :
            ~initialized =>
                /\ ~WroteOnBus(t)
                /\ Acts(t) => UNCHANGED <<pwm_cache, ctrl_cache, chip>>]_vars

\* C17 witness: init returned an error at its first bus write, and
\* led_set_brightness(0, 200) has since written the chip and the cache
C17_Witness ==
    /\ ipc = "failed" /\ ~initialized /\ ilog.chan = 0
    /\ AtReturn("t1") /\ op["t1"].name = "led_set_brightness"
    /\ ret["t1"] = "0" /\ Len(wlog["t1"]) = 2
    /\ pwm_cache[0] = 200 /\ chip.out_pwm[0] = 200

\* init has driven the pin high and goes on to its startup delay
InGoesPin == ipc = "sdb_set" /\ ipc' = "sdb_delay"

\* caller t is in hw_shutdown, between lock and unlock
InHwShutdown(t) == lock = t /\ op[t].name = "hw_shutdown"

\* C18: leaving hardware shutdown. In hw_shutdown(false) and in init the
\* pin is driven to its enabling level, then the startup delay elapses, and
\* only then can a register write of any caller reach the bus: the lock is
\* held across pin write and delay. If the pin write fails, hw_shutdown is
\* unchanged and no delay is taken.
C18_LeaveHwShutdown ==
    /\ [](\A t \in Callers :
            /\ (op[t].name = "hw_shutdown" /\ ret[t] = "-EIO") =>
                  pc[t] \in {"unlock", "done"}
            /\ pc[t] = "delay" =>
                  (InHwShutdown(t) /\ ~op[t].en /\ ret[t] = "0"
                   /\ sdb_pin = 1 /\ ~hw_shutdown))
    /\ [][\A t \in Callers :
            /\ InHwShutdown(t) =>
                  (chip' = chip /\ \A u \in Callers : ~WroteOnBus(u))
            /\ (InHwShutdown(t) /\ pc[t] = "pin" /\ Acts(t)) =>
                  IF ret'[t] = "0"
                      THEN /\ pc'[t] = "store"
                           /\ sdb_pin' = (IF op[t].en THEN 0 ELSE 1)
                      ELSE /\ pc'[t] = "unlock"
                           /\ UNCHANGED <<sdb_pin, hw_shutdown>>
            /\ (InHwShutdown(t) /\ pc[t] = "store" /\ Acts(t)) =>
                  /\ hw_shutdown' = op[t].en
                  /\ pc'[t] = (IF op[t].en THEN "unlock" ELSE "delay")
            /\ (InHwShutdown(t) /\ pc[t] \in {"delay", "unlock"}) =>
                  UNCHANGED <<hw_shutdown, sdb_pin>>
            /\ (pc[t] = "delay" /\ Acts(t)) =>
                  (pc'[t] = "unlock" /\ lock' = t)]_vars
    /\ [][/\ InGoesPin => (sdb_pin' = 1 /\ ~hw_shutdown' /\ chip' = chip)
          /\ (ipc' = "reset" /\ ipc # "reset" /\ cfg.sdb) =>
                (ipc = "sdb_delay" /\ sdb_pin = 1 /\ chip' = chip)
          /\ (ipc \in {"start", "sdb_ready", "sdb_configure", "sdb_set",
                       "sdb_delay"}) => chip' = chip]_vars

\* C18 witness: hw_shutdown(false) has driven the pin high and is in its
\* startup delay, holding the lock, while the other caller's
\* led_set_brightness waits for the lock with nothing written
C18_Witness ==
    \E t, u \in Callers :
        /\ pc[t] = "delay" /\ lock = t /\ sdb_pin = 1 /\ ~hw_shutdown
        /\ u # t /\ pc[u] = "lock" /\ op[u].name = "led_set_brightness"
        /\ wlog[u] = <<>>

\* last element of a non-empty sequence
Last(q) == q[Len(q)]

\* the byte is31fl3235a_sw_shutdown writes to the Shutdown register
ShutdownValue(o) ==
    IF o.en THEN IS31FL3235A_SHUTDOWN_MODE ELSE IS31FL3235A_SHUTDOWN_NORMAL

\* caller t is at the register write of is31fl3235a_sw_shutdown
AtShutdownWrite(t) ==
    lock = t /\ pc[t] = "write" /\ op[t].name = "sw_shutdown"

\* C19: after successful initialization, whenever no operation is in
\* progress, sw_shutdown is true iff the most recent successful write to the
\* Shutdown register wrote 0 (the chip's Shutdown register holds that value:
\* it changes only by a successful sw_shutdown write, which stores the byte
\* written); a failed Shutdown write leaves sw_shutdown as it was and
\* returns the transport error.
C19_SwShutdownFlag ==
    /\ []((initialized /\ NoOperationInProgress) =>
            (sw_shutdown <=> chip.shutdown = IS31FL3235A_SHUTDOWN_MODE))
    /\ [][/\ (initialized /\ chip'.shutdown # chip.shutdown) =>
                \E t \in Callers : AtShutdownWrite(t) /\ Acts(t)
          /\ \A t \in Callers :
                /\ (AtShutdownWrite(t) /\ Acts(t)) =>
                      IF Last(wlog'[t]).ok
                          THEN /\ chip'.shutdown = ShutdownValue(op[t])
                               /\ Last(wlog'[t]).reg = IS31FL3235A_REG_SHUTDOWN
                               /\ pc'[t] = "store" /\ ret'[t] = "0"
                          ELSE /\ chip' = chip
                               /\ pc'[t] = "unlock" /\ ret'[t] = "-EIO"
                /\ (op[t].name = "sw_shutdown" /\ Acts(t)
                    /\ pc[t] # "store") => sw_shutdown' = sw_shutdown
                /\ (op[t].name = "sw_shutdown" /\ Acts(t)
                    /\ pc[t] = "store") =>
                      (ret[t] = "0" /\ sw_shutdown' = op[t].en)]_vars

\* C19 witness: sw_shutdown(true) succeeded, then sw_shutdown(false) failed
\* on the bus and returned -EIO: the flag and the register still say shutdown
C19_Witness ==
    \E t \in Callers :
        /\ initialized /\ NoOperationInProgress /\ AtReturn(t)
        /\ op[t].name = "sw_shutdown" /\ ~op[t].en /\ ret[t] = "-EIO"
        /\ sw_shutdown /\ chip.shutdown = IS31FL3235A_SHUTDOWN_MODE

\* caller t is inside a call that has not returned yet
Executing(t) == pc[t] \notin {"idle", "done"}

\* C20: every operation that acquires the lock releases it exactly once
\* before returning, on the success path and on every error path: the lock
\* is held by t exactly while t is between k_mutex_lock and k_mutex_unlock,
\* it is taken only when free, it leaves t's hands only in t's unlock step,
\* and a call returns either from that step or from a validation that never
\* took the lock. So the lock is free whenever no operation is executing,
\* and a state with a call in flight always has a caller step to take.
C20_LockReleased ==
    /\ [](/\ \A t \in Callers : lock = t <=> InCritical(t)
          /\ NoOperationInProgress => lock = "free"
          /\ (\E t \in Callers : pc[t] # "idle") =>
                ENABLED CallerStep(Callers, MaxCalls))
    /\ [][\A t \in Callers :
            /\ (lock # t /\ lock' = t) => (pc[t] = "lock" /\ lock = "free")
            /\ (lock = t /\ lock' # t) =>
                  (pc[t] = "unlock" /\ pc'[t] = "done" /\ lock' = "free")
            /\ (pc'[t] = "done" /\ pc[t] # "done") =>
                  \/ pc[t] = "unlock" /\ lock = t /\ lock' = "free"
                  \/ pc[t] = "idle" /\ lock # t /\ lock' = lock
                     /\ ret'[t] \in {"-EINVAL", "-ENOTSUP"}
            /\ (Executing(t) /\ Acts(t) /\ ret'[t] # ret[t]
                /\ ret'[t] # "0") =>
                  (pc'[t] = "unlock" /\ lock' = t)]_vars

\* C20 witness: one caller's operation failed at its Update write and
\* returned -EIO; the lock is free for the other caller waiting for it
C20_Witness ==
    \E t, u \in Callers :
        /\ AtReturn(t) /\ ret[t] = "-EIO"
        /\ Len(wlog[t]) = 2 /\ ~Last(wlog[t]).ok
        /\ u # t /\ pc[u] = "lock" /\ lock = "free"

\* the writes caller t's operation has put on the Update register
UpdateWrites(t) ==
    {k \in 1..Len(wlog[t]) : wlog[t][k].reg = IS31FL3235A_REG_UPDATE}

\* C21: with every transport and pin call returning and the lock granted
\* fairly, every invoked operation eventually returns; an operation makes
\* at most one data write and one Update write and repeats neither, and a
\* caller waiting for the lock goes on once the holder has released it.
C21_EventuallyReturns ==
    /\ \A t \in Callers : Executing(t) ~> AtReturn(t)
    /\ \A t \in Callers : (pc[t] = "lock") ~> (lock = t)
    /\ [](\A t \in Callers :
            /\ Len(wlog[t]) <= 2
            /\ Cardinality(UpdateWrites(t)) <= 1
            /\ Len(wlog[t]) = 2 =>
                  (wlog[t][1].ok /\ UpdateWrites(t) = {2}))
    /\ [][\A t \in Callers :
            WroteOnBus(t) =>
                (pc'[t] # pc[t] /\ Len(wlog'[t]) = Len(wlog[t]) + 1)]_vars

\* C21 witness: a caller that had to wait for the lock while the other
\* caller's operation ran has returned 0 from its own operation
C21_Witness ==
    \E t \in Callers :
        /\ AtReturn(t) /\ ret[t] = "0" /\ Len(wlog[t]) = 2
        /\ t \in overlap

\* the operations that end with a write to the Update register
TriggeringOps ==
    {"led_set_brightness", "led_write_channels", "update"} \cup CtrlOps

\* the chip's visible PWM and control values are the cached ones
ActiveIsCache(c, pwm, ctrl) == c.out_pwm = pwm /\ c.out_ctrl = ctrl

\* C22: after an operation that ends with an acknowledged Update write
\* (led_set_brightness, led_write_channels, set_current_scale,
\* channel_enable, channels_enable, update, or init), the chip's visible PWM
\* and control values equal pwm_cache and ctrl_cache on all 28 channels,
\* also on channels staged earlier by a no-update variant or by an
\* operation whose own Update write failed.
C22_ActiveIsCacheAfterUpdate ==
    /\ [](\A t \in Callers :
            (AtReturn(t) /\ op[t].name \in TriggeringOps /\ ret[t] = "0") =>
                /\ ActiveIsCache(chip, pwm_cache, ctrl_cache)
                /\ Last(wlog[t]) = BusWrite(IS31FL3235A_REG_UPDATE,
                                       <<IS31FL3235A_UPDATE_TRIGGER>>, TRUE))
    /\ [][\A t \in Callers :
            UpdateWritten(t) =>
                (ActiveIsCache(chip', pwm_cache', ctrl_cache')
                 /\ UNCHANGED <<pwm_cache, ctrl_cache>>
                 /\ pending' = NoPending)]_vars
    /\ [][InitGoes("trigger", "ready") =>
                ActiveIsCache(chip', pwm_cache', ctrl_cache')]_vars

\* C22 witness: a control operation staged channel 3's byte but its own
\* Update write failed; a later update() succeeded and has returned, and the
\* visible control value of channel 3 is the cached one
C22_Witness ==
    \E t \in Callers :
        /\ AtReturn(t) /\ op[t].name = "update" /\ ret[t] = "0"
        /\ hist.failed
        /\ ctrl_cache[3] # IS31FL3235A_CTRL_ENABLE_1X
        /\ chip.out_ctrl[3] = ctrl_cache[3]

\* the control bytes after a successful
\* is31fl3235a_channel_enable(channel, enable)
ChannelEnableOn(ctrl, channel, enable) ==
    [ctrl EXCEPT ![channel] = SetEnable(ctrl[channel], enable)]

\* the control bytes after channel_enable(start + k, enable[k + 1]) for
\* k = 0, 1, ... in sequence
RECURSIVE ChannelEnableSeq(_, _, _)
ChannelEnableSeq(ctrl, start, enable) ==
    IF enable = <<>> THEN ctrl
    ELSE ChannelEnableSeq(ChannelEnableOn(ctrl, start, Head(enable)),
                          start + 1, Tail(enable))

\* C23: with a working transport, channels_enable(start, count, enable)
\* leaves ctrl_cache and the staging control registers in the state that
\* channel_enable(start + k, enable[k]) for k = 0 .. count - 1 in sequence
\* produces (scale bits kept, bit 0 replaced), with one write of count
\* bytes and one Update write; channels outside the range are unchanged.
C23_BatchEnableEquivalence ==
    \A t \in Callers :
        /\ (AtReturn(t) /\ op[t].name = "channels_enable" /\ ret[t] = "0") =>
              LET start == U32Low(op[t].ch)
                  count == U32Low(op[t].n)
                  seq == ChannelEnableSeq(pre[t].ctrl, start,
                                          SubSeq(op[t].ens, 1, count))
              IN  /\ ctrl_cache = seq /\ chip.ctrl = seq
                  /\ \A i \in ChannelIdx \ Range(start, count) :
                        /\ ctrl_cache[i] = pre[t].ctrl[i]
                        /\ chip.ctrl[i] = pre[t].ctrl[i]
                  /\ \A i \in Range(start, count) :
                        /\ ScaleOf(ctrl_cache[i]) = ScaleOf(pre[t].ctrl[i])
                        /\ EnableOf(ctrl_cache[i]) = op[t].ens[i - start + 1]
                  /\ Len(wlog[t]) = 2
                  /\ wlog[t][1].reg = IS31FL3235A_CTRL_REG(start)
                  /\ Len(wlog[t][1].data) = count
                  /\ wlog[t][2].reg = IS31FL3235A_REG_UPDATE
        /\ (AtReturn(t) /\ op[t].name = "channel_enable" /\ ret[t] = "0") =>
              LET one == ChannelEnableOn(pre[t].ctrl, U32Low(op[t].ch),
                                         op[t].en)
              IN  /\ ctrl_cache = one /\ chip.ctrl = one
                  /\ Len(wlog[t]) = 2
                  /\ wlog[t][1].reg = IS31FL3235A_CTRL_REG(U32Low(op[t].ch))
                  /\ Len(wlog[t][1].data) = 1
                  /\ wlog[t][2].reg = IS31FL3235A_REG_UPDATE

\* C23 witness: channels_enable(2, 2, {true, false}) has returned 0 on a
\* cache where channel 3 had scale 1/2 and was enabled: channel 3 keeps its
\* scale and is disabled, channel 2 is enabled at scale 1
C23_Witness ==
    \E t \in Callers :
        /\ AtReturn(t) /\ op[t].name = "channels_enable" /\ ret[t] = "0"
        /\ op[t].ens = <<TRUE, FALSE>>
        /\ pre[t].ctrl[3] = 3
        /\ ctrl_cache[3] = 2 /\ ctrl_cache[2] = 1

\* a control byte with nothing set beyond the enable bit and the scale field
CtrlByte == 0 .. (IS31FL3235A_CTRL_SL_MASK + IS31FL3235A_CTRL_OUT_ENABLE)

\* every control byte of the bus writes in log lies in CtrlByte
CtrlWritesClean(log) ==
    \A k \in 1 .. Len(log) :
        InCtrlWindow(log[k].reg) =>
            \A j \in 1 .. Len(log[k].data) : log[k].data[j] \in CtrlByte

\* C24: after successful initialization and any sequence of operations,
\* every ctrl_cache[i] and every control byte written to the bus lies in
\* 0..7; set_current_scale writes (old & ~0x06) | (scale << 1), keeping
\* bit 0, and only for scale in {0, 1, 2, 3}.
C24_ControlByteRange ==
    /\ initialized =>
          \A i \in ChannelIdx :
              ctrl_cache[i] \in CtrlByte /\ chip.ctrl[i] \in CtrlByte
    /\ \A t \in Callers :
        /\ CtrlWritesClean(wlog[t])
        /\ (op[t].name = "set_current_scale" /\ wlog[t] # <<>>) =>
              LET old == pre[t].ctrl[U32Low(op[t].ch)]
                  new == wlog[t][1].data[1]
              IN  /\ op[t].val \in IS31FL3235A_SCALE_1X ..
                                    IS31FL3235A_SCALE_1_4X
                  /\ wlog[t][1].reg = IS31FL3235A_CTRL_REG(U32Low(op[t].ch))
                  /\ Len(wlog[t][1].data) = 1
                  /\ new = (old % 2) + 2 * op[t].val + 8 * (old \div 8)
                  /\ EnableOf(new) = EnableOf(old)
                  /\ ScaleOf(new) = op[t].val

\* C24 witness: set_current_scale(3, 1/4) has returned 0 on the enabled
\* channel 3, whose byte is now 7; the byte before was 3 (scale 1/2)
C24_Witness ==
    \E t \in Callers :
        /\ AtReturn(t) /\ op[t].name = "set_current_scale" /\ ret[t] = "0"
        /\ op[t].val = IS31FL3235A_SCALE_1_4X
        /\ pre[t].ctrl[3] = 3
        /\ ctrl_cache[3] = 7 /\ chip.ctrl[3] = 7

\* the last register address a bus write w reaches
LastReg(w) == w.reg + Len(w.data) - 1

\* bus write w lands on register address reg
Covers(w, reg) == Len(w.data) > 0 /\ w.reg <= reg /\ reg <= LastReg(w)

\* C25: every bus write of a public operation after initialization stays in
\* the operation's register window: the brightness operations write
\* 0x05 + start .. 0x05 + start + count - 1 within [0x05, 0x20], the control
\* operations 0x2A + start .. 0x2A + start + count - 1 within [0x2A, 0x45],
\* the trigger only 0x25, sw_shutdown only 0x00; no batch write reaches the
\* Update register, and no operation writes Reset (0x4F) or Frequency (0x4B).
C25_RegisterWindows ==
    /\ [](\A t \in Callers : \A k \in 1 .. Len(wlog[t]) :
            LET w == wlog[t][k]
                o == op[t]
                start == U32Low(o.ch)
                count == IF o.name \in BufferOps THEN U32Low(o.n) ELSE 1
                trigger == k = 2 \/ o.name = "update"
            IN  /\ ~Covers(w, IS31FL3235A_REG_RESET)
                /\ ~Covers(w, IS31FL3235A_REG_FREQ)
                /\ trigger <=> w.reg = IS31FL3235A_REG_UPDATE
                /\ trigger <=> Covers(w, IS31FL3235A_REG_UPDATE)
                /\ trigger => w.data = <<IS31FL3235A_UPDATE_TRIGGER>>
                /\ (~trigger /\ o.name \in PwmOps) =>
                      /\ w.reg = IS31FL3235A_REG_PWM_BASE + start
                      /\ Len(w.data) = count
                      /\ w.reg >= IS31FL3235A_REG_PWM_BASE
                      /\ LastReg(w) < IS31FL3235A_REG_PWM_BASE
                                        + IS31FL3235A_NUM_CHANNELS
                /\ (~trigger /\ o.name \in CtrlOps) =>
                      /\ w.reg = IS31FL3235A_REG_CTRL_BASE + start
                      /\ Len(w.data) = count
                      /\ w.reg >= IS31FL3235A_REG_CTRL_BASE
                      /\ LastReg(w) < IS31FL3235A_REG_CTRL_BASE
                                        + IS31FL3235A_NUM_CHANNELS
                /\ (~trigger /\ o.name = "sw_shutdown") =>
                      (w.reg = IS31FL3235A_REG_SHUTDOWN /\ Len(w.data) = 1)
                /\ o.name # "hw_shutdown")
    /\ [][ipc = "ready" => chip'.freq = chip.freq]_vars

\* C25 witness: led_write_channels(25, 3, ...) has returned 0; its data
\* write went to 0x1E .. 0x20, the last PWM register, and its second write
\* to 0x25
C25_Witness ==
    \E t \in Callers :
        /\ AtReturn(t) /\ op[t].name = "led_write_channels" /\ ret[t] = "0"
        /\ Len(wlog[t]) = 2
        /\ wlog[t][1].reg = 30 /\ LastReg(wlog[t][1]) = 32
        /\ wlog[t][2].reg = IS31FL3235A_REG_UPDATE

\* the channels operation o addresses
Addressed(o) ==
    Range(U32Low(o.ch), IF o.name \in BufferOps THEN U32Low(o.n) ELSE 1)

\* cache entries outside the channels o addresses are as they were
SameOutside(o, new, old) ==
    \A i \in ChannelIdx \ Addressed(o) : new[i] = old[i]

\* C26: frame of the channel operations. A set_brightness or write_channels
\* call (with or without update) changes only the pwm_cache entries of the
\* addressed channels and leaves ctrl_cache, sw_shutdown, hw_shutdown and
\* initialized unchanged; set_current_scale, channel_enable and
\* channels_enable change only the addressed ctrl_cache entries and leave
\* pwm_cache and the flags unchanged; update() changes no driver state.
C26_Frame ==
    /\ [](\A t \in Callers :
            (AtReturn(t) /\ ret[t] = "0") =>
                /\ op[t].name \in PwmOps =>
                      /\ SameOutside(op[t], pwm_cache, pre[t].pwm)
                      /\ ctrl_cache = pre[t].ctrl
                /\ op[t].name \in CtrlOps =>
                      /\ SameOutside(op[t], ctrl_cache, pre[t].ctrl)
                      /\ pwm_cache = pre[t].pwm
                /\ op[t].name = "update" =>
                      (pwm_cache = pre[t].pwm /\ ctrl_cache = pre[t].ctrl))
    /\ [][\A t \in Callers :
            /\ (lock = t /\ op[t].name \in PwmOps) =>
                  /\ SameOutside(op[t], pwm_cache', pwm_cache)
                  /\ UNCHANGED <<ctrl_cache, sw_shutdown, hw_shutdown,
                                 initialized>>
            /\ (lock = t /\ op[t].name \in CtrlOps) =>
                  /\ SameOutside(op[t], ctrl_cache', ctrl_cache)
                  /\ UNCHANGED <<pwm_cache, sw_shutdown, hw_shutdown,
                                 initialized>>
            /\ (lock = t /\ op[t].name = "update") => UNCHANGED dataVars
            /\ (lock # t /\ op[t].name \in PwmOps \cup CtrlOps \cup {"update"}
                /\ Acts(t)) => UNCHANGED dataVars]_vars

\* C26 witness: led_write_channels(0, 3, {255, 200, 100}) has returned 0
\* after set_current_scale changed channel 3: channels 0..2 hold the new
\* values, channel 3's brightness and control byte are as before the call
C26_Witness ==
    \E t \in Callers :
        /\ AtReturn(t) /\ op[t].name = "led_write_channels" /\ ret[t] = "0"
        /\ op[t].ch = U32(0)
        /\ pwm_cache[0] = UINT8_MAX /\ pwm_cache[2] = 100
        /\ pwm_cache[3] = 0 /\ pre[t].pwm[0] = 0
        /\ ctrl_cache[3] # IS31FL3235A_CTRL_ENABLE_1X
        /\ ctrl_cache = pre[t].ctrl /\ initialized

====
